---- MODULE Spec2Model ----
(***************************************************************************)
(* A model of remux (src/remux.go): a regex router.  Routes are registered *)
(* with Handle/HandleFunc, optionally restricted to methods with           *)
(* Get/Head/Post/Put/Delete/Options, and ServeHTTP dispatches a request to *)
(* the first route whose pattern matches req.RequestURI.                   *)
(*                                                                         *)
(* Strings the code inspects character by character (request targets,     *)
(* query strings, parameter keys and values) are sequences of one-byte     *)
(* strings, so that escaping, sorting, splitting and matching are computed *)
(* and not assumed.  Method names and handler identities are atoms.        *)
(***************************************************************************)
EXTENDS Integers, Sequences, FiniteSets, TLC

NIL == "nil"

(***************************************************************************)
(* Bytes.                                                                  *)
(***************************************************************************)
Chars == {"/", ":", "=", "&", "%", "+", "?", " ", "a", "b", "n", "x",
          "0", "1", "2", "3", "4", "5", "6", "7", "8", "9",
          "A", "B", "C", "D", "E", "F"}

ByteOf(c) ==
    CASE c = " " -> 32 [] c = "%" -> 37 [] c = "&" -> 38 [] c = "+" -> 43
      [] c = "/" -> 47 [] c = "0" -> 48 [] c = "1" -> 49 [] c = "2" -> 50
      [] c = "3" -> 51 [] c = "4" -> 52 [] c = "5" -> 53 [] c = "6" -> 54
      [] c = "7" -> 55 [] c = "8" -> 56 [] c = "9" -> 57 [] c = ":" -> 58
      [] c = "=" -> 61 [] c = "?" -> 63 [] c = "A" -> 65 [] c = "B" -> 66
      [] c = "C" -> 67 [] c = "D" -> 68 [] c = "E" -> 69 [] c = "F" -> 70
      [] c = "a" -> 97 [] c = "b" -> 98 [] c = "n" -> 110 [] c = "x" -> 120

CharOf(code) ==
    IF \E c \in Chars : ByteOf(c) = code
    THEN CHOOSE c \in Chars : ByteOf(c) = code
    ELSE "?"

UpperHex == <<"0", "1", "2", "3", "4", "5", "6", "7", "8", "9",
              "A", "B", "C", "D", "E", "F">>

\* bytewise string comparison, as sort.Strings orders the keys in Encode
RECURSIVE StrLess(_, _)
StrLess(s, t) ==
    IF t = <<>> THEN FALSE
    ELSE IF s = <<>> THEN TRUE
    ELSE IF ByteOf(Head(s)) # ByteOf(Head(t)) THEN ByteOf(Head(s)) < ByteOf(Head(t))
    ELSE StrLess(Tail(s), Tail(t))

RECURSIVE Join(_, _)
Join(parts, sep) ==
    IF parts = <<>> THEN <<>>
    ELSE IF Len(parts) = 1 THEN parts[1]
    ELSE parts[1] \o sep \o Join(Tail(parts), sep)

\* strings.Cut: <<before, after, found>>
RECURSIVE CutAt(_, _, _)
CutAt(s, c, k) ==
    IF k > Len(s) THEN <<s, <<>>, FALSE>>
    ELSE IF s[k] = c THEN <<SubSeq(s, 1, k - 1), SubSeq(s, k + 1, Len(s)), TRUE>>
    ELSE CutAt(s, c, k + 1)

Cut(s, c) == CutAt(s, c, 1)

(***************************************************************************)
(* net/url: QueryEscape, QueryUnescape, Values.Add, Values.Encode,         *)
(* ParseQuery.                                                             *)
(***************************************************************************)
\* url.shouldEscape in encodeQueryComponent mode
ShouldEscape(c) ==
    LET b == ByteOf(c) IN
    ~ (\/ b \in 48..57 \/ b \in 65..90 \/ b \in 97..122
       \/ b \in {45, 95, 46, 126})

EscapeByte(c) ==
    IF ~ShouldEscape(c) THEN <<c>>
    ELSE IF c = " " THEN <<"+">>
    ELSE <<"%", UpperHex[(ByteOf(c) \div 16) + 1], UpperHex[(ByteOf(c) % 16) + 1]>>

RECURSIVE QueryEscape(_)
QueryEscape(s) ==
    IF s = <<>> THEN <<>> ELSE EscapeByte(Head(s)) \o QueryEscape(Tail(s))

IsHex(c) == ByteOf(c) \in (48..57) \cup (65..70) \cup (97..102)

UnHex(c) ==
    LET b == ByteOf(c) IN
    IF b \in 48..57 THEN b - 48
    ELSE IF b \in 97..102 THEN b - 97 + 10
    ELSE b - 65 + 10

\* url.QueryUnescape: [ok |-> FALSE] on a malformed escape
RECURSIVE QueryUnescape(_)
QueryUnescape(s) ==
    IF s = <<>> THEN [ok |-> TRUE, val |-> <<>>]
    ELSE IF Head(s) = "%"
    THEN IF Len(s) < 3 \/ ~IsHex(s[2]) \/ ~IsHex(s[3])
         THEN [ok |-> FALSE, val |-> <<>>]
         ELSE LET rest == QueryUnescape(SubSeq(s, 4, Len(s))) IN
              [ok |-> rest.ok,
               val |-> <<CharOf(16 * UnHex(s[2]) + UnHex(s[3]))>> \o rest.val]
    ELSE LET rest == QueryUnescape(Tail(s)) IN
         [ok |-> rest.ok,
          val |-> <<(IF Head(s) = "+" THEN " " ELSE Head(s))>> \o rest.val]

\* url.Values is a map from key to the list of its values
EmptyValues == <<>>

ValuesAdd(v, key, val) ==
    IF key \in DOMAIN v
    THEN [v EXCEPT ![key] = Append(@, val)]
    ELSE [k \in DOMAIN v \cup {key} |-> IF k = key THEN <<val>> ELSE v[k]]

ValuesGetAll(v, key) == IF key \in DOMAIN v THEN v[key] ELSE <<>>

RECURSIVE SortStrings(_)
SortStrings(keys) ==
    IF keys = {} THEN <<>>
    ELSE LET least == CHOOSE k \in keys : \A o \in keys \ {k} : StrLess(k, o)
         IN  <<least>> \o SortStrings(keys \ {least})

RECURSIVE EncodeKey(_, _)
EncodeKey(key, vals) ==
    IF vals = <<>> THEN <<>>
    ELSE <<QueryEscape(key) \o <<"=">> \o QueryEscape(Head(vals))>>
         \o EncodeKey(key, Tail(vals))

RECURSIVE EncodePairs(_, _)
EncodePairs(v, keys) ==
    IF keys = <<>> THEN <<>>
    ELSE EncodeKey(Head(keys), v[Head(keys)]) \o EncodePairs(v, Tail(keys))

\* url.Values.Encode: "bar=baz&foo=quux", sorted by key
ValuesEncode(v) == Join(EncodePairs(v, SortStrings(DOMAIN v)), <<"&">>)

\* url.ParseQuery; a piece that fails to unescape is dropped, the rest is kept
RECURSIVE ParseQueryInto(_, _)
ParseQueryInto(m, query) ==
    IF query = <<>> THEN m
    ELSE LET c    == Cut(query, "&")
             kv   == Cut(c[1], "=")
             key  == QueryUnescape(kv[1])
             val  == QueryUnescape(kv[2])
         IN  IF c[1] = <<>> \/ ~key.ok \/ ~val.ok
             THEN ParseQueryInto(m, c[2])
             ELSE ParseQueryInto(ValuesAdd(m, key.val, val.val), c[2])

ParseQuery(query) == ParseQueryInto(EmptyValues, query)

(***************************************************************************)
(* regexp.  A pattern source is a sequence of tokens: a literal byte, the  *)
(* group openers "(" and "(?P<n>", the closer ")" and ".+".  The fragment  *)
(* covers literals, .+ and capturing groups around .+, which is what the   *)
(* registered patterns use; matching is leftmost-first and greedy, as      *)
(* FindStringSubmatch is.                                                  *)
(***************************************************************************)
IsOpen(tok) == tok \in {"(", "(?P<n>"}

\* the name a group opener declares, "" for an unnamed group
GroupName(tok) == IF tok = "(?P<n>" THEN <<"n">> ELSE <<>>

\* parenthesis depth after scanning the tokens; -1 once a ")" had no opener
RECURSIVE Depth(_, _)
Depth(regex, d) ==
    IF d < 0 \/ regex = <<>> THEN d
    ELSE Depth(Tail(regex),
               IF IsOpen(Head(regex)) THEN d + 1
               ELSE IF Head(regex) = ")" THEN d - 1 ELSE d)

\* syntax.Parse succeeds: "missing closing )" and "unexpected )" are errors
Compiles(regex) == Depth(regex, 0) = 0

RECURSIVE Items(_)
Items(regex) ==
    IF regex = <<>> THEN <<>>
    ELSE IF IsOpen(Head(regex))
    THEN <<[kind |-> "cap"]>> \o Items(SubSeq(regex, 4, Len(regex)))
    ELSE IF Head(regex) = ".+"
    THEN <<[kind |-> "any"]>> \o Items(Tail(regex))
    ELSE <<[kind |-> "lit", c |-> Head(regex)]>> \o Items(Tail(regex))

\* Regexp.SubexpNames: names[0] is always the empty string
RECURSIVE GroupNames(_)
GroupNames(regex) ==
    IF regex = <<>> THEN <<>>
    ELSE IF IsOpen(Head(regex))
    THEN <<GroupName(Head(regex))>> \o GroupNames(Tail(regex))
    ELSE GroupNames(Tail(regex))

SubexpNames(pattern) == <<<<>>>> \o GroupNames(pattern.expr)

\* regexp.MustCompile panics unless the expression compiles; otherwise it
\* returns the Regexp: the expression and its program
MustCompilePanics(regex) == ~Compiles(regex)

MustCompile(regex) == [expr |-> regex, prog |-> Items(regex)]

NoMatch == [ok |-> FALSE]

RECURSIVE MatchFrom(_, _, _, _)
MatchFrom(prog, k, s, pos) ==
    IF k > Len(prog) THEN [ok |-> TRUE, end |-> pos, caps |-> <<>>]
    ELSE IF prog[k].kind = "lit"
    THEN IF pos <= Len(s) /\ s[pos] = prog[k].c
         THEN MatchFrom(prog, k + 1, s, pos + 1)
         ELSE NoMatch
    ELSE LET lens == {n \in 1..(Len(s) - pos + 1) :
                         MatchFrom(prog, k + 1, s, pos + n).ok}
         IN  IF lens = {} THEN NoMatch
             ELSE LET n    == CHOOSE x \in lens : \A y \in lens : y <= x
                      rest == MatchFrom(prog, k + 1, s, pos + n)
                  IN  [ok   |-> TRUE,
                       end  |-> rest.end,
                       caps |-> (IF prog[k].kind = "cap"
                                 THEN <<SubSeq(s, pos, pos + n - 1)>>
                                 ELSE <<>>) \o rest.caps]

\* Regexp.FindStringSubmatch: <<>> (nil) when there is no match, else the
\* leftmost match followed by the text of each group
FindStringSubmatch(pattern, s) ==
    LET starts == {p \in 1..(Len(s) + 1) : MatchFrom(pattern.prog, 1, s, p).ok}
    IN  IF starts = {} THEN <<>>
        ELSE LET p == CHOOSE x \in starts : \A y \in starts : x <= y
                 m == MatchFrom(pattern.prog, 1, s, p)
             IN  <<SubSeq(s, p, m.end - 1)>> \o m.caps

(***************************************************************************)
(* Inputs.                                                                 *)
(***************************************************************************)
MaxRoutes == 2

reLit   == <<"/", "a">>
reNamed == <<"/", "a", "/", "(?P<n>", ".+", ")">>
reMixed == <<"/", "(", ".+", ")", "/", "(?P<n>", ".+", ")">>
\* two groups of one name, which regexp accepts (see Regexp.SubexpIndex)
reTwice == <<"/", "(?P<n>", ".+", ")", "/", "(?P<n>", ".+", ")">>
reOpen  == <<"/", "a", "(">>
reClose == <<")", "/", "a">>

\* the Handle/HandleFunc calls the caller makes: a regex and a handler
Registrations ==
    { [regex |-> reLit,   handler |-> "hA"],
      [regex |-> reNamed, handler |-> "hB"],
      [regex |-> reMixed, handler |-> "hA"],
      [regex |-> reTwice, handler |-> "hB"],
      [regex |-> reOpen,  handler |-> "hA"],
      [regex |-> reClose, handler |-> "hB"] }

FallbackHandlers == {"hNF"}

\* the restriction methods the caller uses, among the six of MethodOf
RestrictFns == {"Get", "Post"}

NoRequest == [RequestURI |-> <<>>, Method |-> "", RawQuery |-> <<>>]

Request(uri, method, query) ==
    [RequestURI |-> uri, Method |-> method, RawQuery |-> query]

Requests ==
    { Request(<<"/", "a", "/", "b">>, "GET", <<>>),
      Request(<<"/", "a", "/", "b">>, "POST", <<":", "n", "=", "x">>),
      Request(<<"/", "a", "?", "a", "=", "1">>, "POST", <<"a", "=", "1">>),
      Request(<<"/", "x", "/", "b">>, "GET", <<"%", "3", "A", "n", "=", "x", "&", "a", "=", "1">>),
      Request(<<"/", "b">>, "DELETE", <<"a", "=", "1">>) }

\* the requests the two concurrent dispatches carry
ConcRequests ==
    [d1 |-> { Request(<<"/", "a", "/", "b">>, "POST", <<":", "n", "=", "x">>),
              Request(<<"/", "b">>, "GET", <<"a", "=", "1">>) },
     d2 |-> { Request(<<"/", "a">>, "GET", <<>>),
              Request(<<"/", "x", "/", "b">>, "DELETE", <<"a", "=", "1">>) }]

Dispatchers == DOMAIN ConcRequests

(***************************************************************************)
(* State.                                                                  *)
(*   handlers         Remux.handlers: the routes, in registration order;   *)
(*                    a *Handler is the index of its route                 *)
(*   NotFoundHandler  Remux.NotFoundHandler, NIL when unset                *)
(*   last             the last call made on the router by the sequential   *)
(*                    caller, with what it returned or produced            *)
(*   registered       history: the (regex, handler) of every Handle call   *)
(*                    that returned, in call order                         *)
(*   called           history: per route, the methods named by the         *)
(*                    restriction calls made on its handle                 *)
(*   serving          the router has been handed to the server             *)
(*   flight           per concurrent dispatch, the ServeHTTP call's frame, *)
(*                    Idle before the call                                 *)
(*   arrived          history: per concurrent dispatch, the request as it  *)
(*                    was when ServeHTTP was called with it                *)
(***************************************************************************)
VARIABLES handlers, NotFoundHandler, last, registered, called, serving, flight,
          arrived

vars == <<handlers, NotFoundHandler, last, registered, called, serving, flight,
          arrived>>

Remux == [handlers |-> handlers, NotFoundHandler |-> NotFoundHandler]

(***************************************************************************)
(* Registration.                                                           *)
(***************************************************************************)
\* a map[string]struct{}: nil, or made and holding keys
NilMap == [nil |-> TRUE, keys |-> {}]

MakeMap == [nil |-> FALSE, keys |-> {}]

\* a faulty Handle: the new route is put in front of the earlier ones
HandleCallPrepending(hs, regex, handler) ==
    IF MustCompilePanics(regex)
    THEN [handlers |-> hs, panicked |-> TRUE, ret |-> 0]
    ELSE LET h == [pattern |-> MustCompile(regex), allowedMethods |-> NilMap,
                   Handler |-> handler]
         IN  [handlers |-> <<h>> \o hs, panicked |-> FALSE, ret |-> 1]

\* Remux.Handle on route list hs: the new list, whether MustCompile
\* panicked, and the returned *Handler
HandleCall(hs, regex, handler) ==
    IF MustCompilePanics(regex)
    THEN [handlers |-> hs, panicked |-> TRUE, ret |-> 0]
    ELSE LET h == [pattern |-> MustCompile(regex), allowedMethods |-> NilMap,
                   Handler |-> handler]
         IN  [handlers |-> Append(hs, h), panicked |-> FALSE, ret |-> Len(hs) + 1]

\* Remux.HandleFunc wraps f in http.HandlerFunc and calls Handle
HandleFuncCall(hs, regex, f) == HandleCall(hs, regex, f)

\* a faulty method: the map is made anew on every call
methodReplacing(hs, h, m) ==
    [handlers |-> [hs EXCEPT ![h].allowedMethods = [MakeMap EXCEPT !.keys = {m}]],
     ret |-> h]

\* Handler.method on the route h points to
method(hs, h, m) ==
    LET made == IF hs[h].allowedMethods.nil THEN MakeMap ELSE hs[h].allowedMethods
    IN  [handlers |-> [hs EXCEPT ![h].allowedMethods =
                                     [made EXCEPT !.keys = @ \cup {m}]],
         ret |-> h]

MethodOf == [Head |-> "HEAD", Get |-> "GET", Post |-> "POST", Put |-> "PUT",
             Delete |-> "DELETE", Options |-> "OPTIONS"]

Restriction(hs, h, fn) == method(hs, h, MethodOf[fn])

(***************************************************************************)
(* ServeHTTP, as the steps of one call.  A frame is the call's position:   *)
(* pc, the loop index i, the request (a *http.Request, written in place),  *)
(* the calls made on the response writer and on handlers so far (events),  *)
(* and the routes whose pattern was run against the request (tried).       *)
(***************************************************************************)
Idle == [pc |-> "idle"]

Frame(req) ==
    [pc |-> "loop", i |-> 1, req |-> req, events |-> <<>>, tried |-> <<>>]

\* a faulty match test: a match without groups counts as no match
MatchedWithGroups(submatches) == Len(submatches) > 1

\* len(submatches) == 0 -> continue
Matched(submatches) == Len(submatches) # 0

\* a faulty method test: the nil check is missing
MethodRefusedNoNilCheck(h, m) == m \notin h.allowedMethods.keys

\* h.allowedMethods != nil and req.Method is not a key of it
MethodRefused(h, m) == ~h.allowedMethods.nil /\ m \notin h.allowedMethods.keys

RECURSIVE AddParams(_, _, _, _)
AddParams(params, names, submatches, i) ==
    IF i > Len(names) THEN params
    ELSE AddParams(ValuesAdd(params, <<":">> \o names[i], submatches[i]),
                   names, submatches, i + 1)

\* params := make(url.Values); for i := range names { params.Add(...) }
Params(names, submatches) == AddParams(EmptyValues, names, submatches, 1)

\* a faulty injection: the parameters are put after the original query
InjectQueryAppended(params, rawQuery) == rawQuery \o <<"&">> \o ValuesEncode(params)

\* a faulty injection: no separator when the original query is empty
InjectQueryTrimmed(params, rawQuery) ==
    IF rawQuery = <<>> THEN ValuesEncode(params)
    ELSE ValuesEncode(params) \o <<"&">> \o rawQuery

\* req.URL.RawQuery = params.Encode() + "&" + req.URL.RawQuery
InjectQuery(params, rawQuery) == ValuesEncode(params) \o <<"&">> \o rawQuery

\* a faulty refusal: the return is missing, the loop goes on
RefuseMethodAndContinue(f) ==
    [f EXCEPT !.events = Append(@, [kind |-> "WriteHeader", status |-> 405,
                                    route |-> f.i]),
              !.i = f.i + 1]

\* w.WriteHeader(http.StatusMethodNotAllowed); return
RefuseMethod(f) ==
    [f EXCEPT !.events = Append(@, [kind |-> "WriteHeader", status |-> 405,
                                    route |-> f.i]),
              !.pc = "done"]

\* the request as the matched route's handler receives it
InjectedRequest(h, req, submatches) ==
    [req EXCEPT !.RawQuery =
        InjectQuery(Params(SubexpNames(h.pattern), submatches), req.RawQuery)]

\* a faulty invocation: the return is missing, the loop goes on
InvokeRouteAndContinue(f, h, submatches) ==
    LET req == InjectedRequest(h, f.req, submatches) IN
    [f EXCEPT !.req = req,
              !.events = Append(@, [kind |-> "ServeHTTP", handler |-> h.Handler,
                                    route |-> f.i, req |-> req]),
              !.i = f.i + 1]

\* h.ServeHTTP(w, req); return
InvokeRoute(f, h, submatches) ==
    LET req == InjectedRequest(h, f.req, submatches) IN
    [f EXCEPT !.req = req,
              !.events = Append(@, [kind |-> "ServeHTTP", handler |-> h.Handler,
                                    route |-> f.i, req |-> req]),
              !.pc = "done"]

\* a faulty iteration: the query is rewritten before the method is checked
LoopStepInjectingFirst(r, f) ==
    LET h          == r.handlers[f.i]
        submatches == FindStringSubmatch(h.pattern, f.req.RequestURI)
        g          == [f EXCEPT !.tried = Append(@, f.i)]
    IN  IF ~Matched(submatches) THEN [g EXCEPT !.i = f.i + 1]
        ELSE IF MethodRefused(h, f.req.Method)
        THEN RefuseMethod([g EXCEPT !.req = InjectedRequest(h, f.req, submatches)])
        ELSE InvokeRoute(g, h, submatches)

\* one iteration of  for _, h := range r.handlers
LoopStep(r, f) ==
    LET h          == r.handlers[f.i]
        submatches == FindStringSubmatch(h.pattern, f.req.RequestURI)
        g          == [f EXCEPT !.tried = Append(@, f.i)]
    IN  IF ~Matched(submatches) THEN [g EXCEPT !.i = f.i + 1]
        ELSE IF MethodRefused(h, f.req.Method) THEN RefuseMethod(g)
        ELSE InvokeRoute(g, h, submatches)

\* a faulty fallback: NotFoundHandler is never used
NotFoundStepDefaultOnly(r, f) ==
    [f EXCEPT !.events = Append(@, [kind |-> "NotFound", status |-> 404, route |-> 0]),
              !.pc = "done"]

\* after the loop: r.NotFoundHandler.ServeHTTP or http.NotFound
NotFoundStep(r, f) ==
    [f EXCEPT !.events =
                 Append(@, IF r.NotFoundHandler # NIL
                           THEN [kind |-> "ServeHTTP", handler |-> r.NotFoundHandler,
                                 route |-> 0, req |-> f.req]
                           ELSE [kind |-> "NotFound", status |-> 404, route |-> 0]),
              !.pc = "done"]

Step(r, f) ==
    IF f.i <= Len(r.handlers) THEN LoopStep(r, f) ELSE NotFoundStep(r, f)

RECURSIVE Run(_, _)
Run(r, f) == IF f.pc = "done" THEN f ELSE Run(r, Step(r, f))

\* a whole call of Remux.ServeHTTP: the frame it returns with
ServeHTTPCall(r, req) == Run(r, Frame(req))

(***************************************************************************)
(* The sequential caller: any order of Handle/HandleFunc, restriction      *)
(* calls, assignments to NotFoundHandler and ServeHTTP calls.              *)
(***************************************************************************)
Init ==
    /\ handlers = <<>>
    /\ NotFoundHandler = NIL
    /\ last = [op |-> "none"]
    /\ registered = <<>>
    /\ called = <<>>
    /\ serving = FALSE
    /\ flight = [d \in Dispatchers |-> Idle]
    /\ arrived = [d \in Dispatchers |-> NoRequest]

Handle(regex, handler) ==
    /\ ~serving
    /\ Len(handlers) < MaxRoutes
    /\ LET c == HandleCall(handlers, regex, handler) IN
       /\ handlers' = c.handlers
       /\ last' = [op |-> "Handle", regex |-> regex, handler |-> handler,
                   panicked |-> c.panicked, ret |-> c.ret]
       /\ registered' = IF Compiles(regex)
                        THEN Append(registered, [regex |-> regex, handler |-> handler])
                        ELSE registered
       /\ called' = IF Compiles(regex) THEN Append(called, {}) ELSE called
    /\ UNCHANGED <<NotFoundHandler, serving, flight, arrived>>

Restrict(h, fn) ==
    /\ ~serving
    /\ h \in 1..Len(handlers)
    /\ LET c == Restriction(handlers, h, fn) IN
       /\ handlers' = c.handlers
       /\ last' = [op |-> "method", h |-> h, fn |-> fn, ret |-> c.ret]
    /\ called' = [called EXCEPT ![h] = @ \cup {MethodOf[fn]}]
    /\ UNCHANGED <<NotFoundHandler, registered, serving, flight, arrived>>

SetNotFoundHandler(handler) ==
    /\ ~serving
    /\ NotFoundHandler' = handler
    /\ last' = [op |-> "NotFoundHandler", handler |-> handler]
    /\ UNCHANGED <<handlers, registered, called, serving, flight, arrived>>

ServeHTTP(req) ==
    /\ ~serving
    /\ last' = [op |-> "ServeHTTP", req |-> req, out |-> ServeHTTPCall(Remux, req)]
    /\ UNCHANGED <<handlers, NotFoundHandler, registered, called, serving, flight, arrived>>

Next ==
    \/ \E reg \in Registrations : Handle(reg.regex, reg.handler)
    \/ \E h \in 1..MaxRoutes, fn \in RestrictFns : Restrict(h, fn)
    \/ \E handler \in FallbackHandlers \cup {NIL} : SetNotFoundHandler(handler)
    \/ \E req \in Requests : ServeHTTP(req)

Spec == Init /\ [][Next]_vars

(***************************************************************************)
(* The server: registration first, then go http.ListenAndServe(addr, r),   *)
(* after which ServeHTTP calls for distinct requests run concurrently, one *)
(* loop iteration at a time.                                               *)
(***************************************************************************)
ListenAndServe ==
    /\ ~serving
    /\ serving' = TRUE
    /\ last' = [op |-> "ListenAndServe"]
    /\ UNCHANGED <<handlers, NotFoundHandler, registered, called, flight, arrived>>

Accept(d, req) ==
    /\ serving
    /\ flight[d].pc = "idle"
    /\ flight' = [flight EXCEPT ![d] = Frame(req)]
    /\ arrived' = [arrived EXCEPT ![d] = req]
    /\ UNCHANGED <<handlers, NotFoundHandler, last, registered, called, serving>>

Advance(d) ==
    /\ serving
    /\ flight[d].pc = "loop"
    /\ flight' = [flight EXCEPT ![d] = Step(Remux, @)]
    /\ UNCHANGED <<handlers, NotFoundHandler, last, registered, called, serving,
                   arrived>>

NextConc ==
    \/ \E reg \in Registrations : Handle(reg.regex, reg.handler)
    \/ \E h \in 1..MaxRoutes, fn \in RestrictFns : Restrict(h, fn)
    \/ \E handler \in FallbackHandlers \cup {NIL} : SetNotFoundHandler(handler)
    \/ ListenAndServe
    \/ \E d \in Dispatchers : \E req \in ConcRequests[d] : Accept(d, req)
    \/ \E d \in Dispatchers : Advance(d)

SpecConc == Init /\ [][NextConc]_vars

(***************************************************************************)
(* Properties of a completed ServeHTTP call (sequential caller).           *)
(***************************************************************************)
Served == last.op = "ServeHTTP"

\* the routes whose pattern matches the request target
Matching(req) ==
    {i \in 1..Len(handlers) :
        FindStringSubmatch(handlers[i].pattern, req.RequestURI) # <<>>}

\* the matching route registered first
First(req) == CHOOSE i \in Matching(req) : \A j \in Matching(req) : i <= j

UpTo(n) == [i \in 1..n |-> i]

IsRouteInvocation(e) == e.kind = "ServeHTTP" /\ e.route > 0

IsMethodNotAllowed(e) == e.kind = "WriteHeader" /\ e.status = 405

IsNotFound(e) == e.route = 0 /\ e.kind \in {"ServeHTTP", "NotFound"}

\* C1: a request is decided by the first registered route whose pattern
\* matches req.RequestURI: the routes are tried in registration order up to
\* that route and no further, and no other route is invoked or writes the
\* response; when no route matches, every route has been tried, in order.
FirstMatchDecides ==
    Served =>
        LET req == last.req
            out == last.out
        IN  IF Matching(req) = {}
            THEN /\ out.tried = UpTo(Len(handlers))
                 /\ \A k \in DOMAIN out.events : out.events[k].route = 0
            ELSE /\ out.tried = UpTo(First(req))
                 /\ out.events # <<>>
                 /\ \A k \in DOMAIN out.events :
                       /\ out.events[k].route = First(req)
                       /\ out.events[k].kind = "ServeHTTP" =>
                             out.events[k].handler = handlers[First(req)].Handler

\* both routes match, the first one is the one invoked
FirstMatchDecidesWitness ==
    /\ Served
    /\ Matching(last.req) = {1, 2}
    /\ handlers[1].Handler # handlers[2].Handler
    /\ Len(last.out.events) = 1
    /\ IsRouteInvocation(last.out.events[1])
    /\ last.out.events[1].route = 1

\* C2: when the first matching route has a non-empty allowed-method set
\* without the request's method, the call writes 405 and nothing else: no
\* handler runs, no later route is tried, the not-found path is not taken.
RefusedMethodStops ==
    (/\ Served
     /\ Matching(last.req) # {}
     /\ ~handlers[First(last.req)].allowedMethods.nil
     /\ handlers[First(last.req)].allowedMethods.keys # {}
     /\ last.req.Method \notin handlers[First(last.req)].allowedMethods.keys)
    => /\ last.out.events =
             <<[kind |-> "WriteHeader", status |-> 405, route |-> First(last.req)]>>
       /\ last.out.tried = UpTo(First(last.req))

\* the first match refuses POST while the second match would accept it, and
\* a NotFoundHandler is set
RefusedMethodStopsWitness ==
    /\ Served
    /\ Matching(last.req) = {1, 2}
    /\ last.req.Method = "POST"
    /\ handlers[1].allowedMethods.keys = {"GET"}
    /\ handlers[2].allowedMethods.keys = {"POST"}
    /\ NotFoundHandler # NIL
    /\ IsMethodNotAllowed(last.out.events[1])

\* C3: a call produces exactly one outcome: one invocation of a matched
\* route's handler, one 405, or one not-found delegation.
ExactlyOneOutcome ==
    Served =>
        /\ Len(last.out.events) = 1
        /\ last.out.pc = "done"
        /\ LET e == last.out.events[1] IN
           Cardinality({b \in {<<1, IsRouteInvocation(e)>>,
                               <<2, IsMethodNotAllowed(e)>>,
                               <<3, IsNotFound(e)>>} : b[2]}) = 1

\* a handler was invoked although a later route matches too and a
\* NotFoundHandler is set
ExactlyOneOutcomeWitness ==
    /\ Served
    /\ NotFoundHandler # NIL
    /\ Matching(last.req) = {1, 2}
    /\ called[1] = {}
    /\ IsRouteInvocation(last.out.events[1])

\* the handler invocation of the call, when its outcome is one
Invoked == Served /\ last.out.events # <<>> /\ IsRouteInvocation(last.out.events[1])

InvokedRoute == handlers[last.out.events[1].route]

InvokedSubmatches == FindStringSubmatch(InvokedRoute.pattern, last.req.RequestURI)

\* the texts captured by the groups called name, in group order
RECURSIVE CapturedAs(_, _, _)
CapturedAs(name, names, submatches) ==
    IF names = <<>> THEN <<>>
    ELSE (IF Head(names) = name THEN <<Head(submatches)>> ELSE <<>>)
         \o CapturedAs(name, Tail(names), Tail(submatches))

\* C4 (as amended): the handler sees, for every named group, the key ":name"
\* holding the captured text; the values under that key are the texts of
\* the groups of that name, in group order, followed by the values the
\* original query had under it.  So the captured text comes before every
\* original value, and is the first value when no earlier group of the
\* pattern has the same name.
NamedGroupsBeforeOriginal ==
    Invoked =>
        LET names == SubexpNames(InvokedRoute.pattern)
            seen  == ParseQuery(last.out.events[1].req.RawQuery)
            orig  == ParseQuery(last.req.RawQuery)
        IN  \A i \in DOMAIN names :
               names[i] # <<>> =>
                  LET key == <<":">> \o names[i] IN
                  /\ key \in DOMAIN seen
                  /\ \E k \in DOMAIN seen[key] : seen[key][k] = InvokedSubmatches[i]
                  /\ seen[key] = CapturedAs(names[i], names, InvokedSubmatches)
                                    \o ValuesGetAll(orig, key)
                  /\ (\A j \in 1..(i - 1) : names[j] # names[i])
                        => seen[key][1] = InvokedSubmatches[i]

\* C4 (as claimed): the handler sees, for every named group, the key ":name"
\* whose first value is the captured text; the values the original query
\* had under that key follow it.
NamedGroupFirst ==
    Invoked =>
        LET names == SubexpNames(InvokedRoute.pattern)
            seen  == ParseQuery(last.out.events[1].req.RawQuery)
            orig  == ParseQuery(last.req.RawQuery)
        IN  \A i \in DOMAIN names :
               names[i] # <<>> =>
                  LET key == <<":">> \o names[i] IN
                  /\ key \in DOMAIN seen
                  /\ seen[key][1] = InvokedSubmatches[i]
                  /\ seen[key] = <<InvokedSubmatches[i]>> \o ValuesGetAll(orig, key)

\* two groups called n captured "a" and "b", and the original query carried
\* :n=x
NamedGroupsBeforeOriginalWitness ==
    /\ Invoked
    /\ SubexpNames(InvokedRoute.pattern) = <<<<>>, <<"n">>, <<"n">>>>
    /\ ValuesGetAll(ParseQuery(last.req.RawQuery), <<":", "n">>) = <<<<"x">>>>
    /\ ParseQuery(last.out.events[1].req.RawQuery)[<<":", "n">>]
          = <<<<"a">>, <<"b">>, <<"x">>>>

\* C5: the query the handler sees, which is the request's query after the
\* call, is the encoded parameters, one "&", and the original query as it
\* was; with an empty original query it ends with "&".
QueryPrepended ==
    Invoked =>
        LET encoded == ValuesEncode(Params(SubexpNames(InvokedRoute.pattern),
                                           InvokedSubmatches))
        IN  /\ last.out.events[1].req.RawQuery
                  = encoded \o <<"&">> \o last.req.RawQuery
            /\ last.out.req.RawQuery = last.out.events[1].req.RawQuery
            /\ encoded # <<>>
            /\ \A k \in DOMAIN encoded :
                  encoded[k] = "&" => k > 1 /\ k < Len(encoded) /\ encoded[k + 1] # "&"

\* an empty original query: the result is "%3A=%2Fa%2Fb&%3An=b&"
QueryPrependedWitness ==
    /\ Invoked
    /\ last.req.RawQuery = <<>>
    /\ last.out.req.RawQuery =
          <<"%", "3", "A", "=", "%", "2", "F", "a", "%", "2", "F", "b", "&",
            "%", "3", "A", "n", "=", "b", "&">>

\* C6: when no route matches, NotFoundHandler is invoked once, with the
\* request, if it is set, and the default 404 is written if it is not;
\* nothing else happens.
NoMatchFallsBack ==
    (Served /\ Matching(last.req) = {}) =>
        last.out.events =
            IF NotFoundHandler # NIL
            THEN <<[kind |-> "ServeHTTP", handler |-> NotFoundHandler, route |-> 0,
                    req |-> last.req]>>
            ELSE <<[kind |-> "NotFound", status |-> 404, route |-> 0]>>

\* routes are registered, none matches, NotFoundHandler is set
NoMatchFallsBackWitness ==
    /\ Served
    /\ Len(handlers) = 2
    /\ Matching(last.req) = {}
    /\ NotFoundHandler = "hNF"
    /\ last.out.events[1].kind = "ServeHTTP"

\* C7: a first matching route on which no restriction call was made has its
\* handler invoked whatever the method is.
UnrestrictedAcceptsAll ==
    (/\ Served
     /\ Matching(last.req) # {}
     /\ called[First(last.req)] = {})
    => /\ Len(last.out.events) = 1
       /\ IsRouteInvocation(last.out.events[1])
       /\ last.out.events[1].route = First(last.req)
       /\ last.out.events[1].handler = handlers[First(last.req)].Handler

\* a POST reaches an unrestricted route while another route is restricted
UnrestrictedAcceptsAllWitness ==
    /\ Served
    /\ Matching(last.req) # {}
    /\ called[First(last.req)] = {}
    /\ last.req.Method = "POST"
    /\ \E i \in 1..Len(handlers) : called[i] # {}
    /\ IsRouteInvocation(last.out.events[1])

(***************************************************************************)
(* Properties of registration.                                             *)
(***************************************************************************)
\* C8: every route's allowed-method set is the set of methods named by the
\* restriction calls made on its own handle (nil when there was none), its
\* pattern and handler are those it was registered with, the routes are in
\* registration order, and a restriction call returns the handle it was
\* called on.
RestrictionsAccumulate ==
    /\ Len(handlers) = Len(registered)
    /\ Len(called) = Len(handlers)
    /\ \A i \in 1..Len(handlers) :
          /\ handlers[i].allowedMethods =
                 [nil |-> called[i] = {}, keys |-> called[i]]
          /\ handlers[i].pattern.expr = registered[i].regex
          /\ handlers[i].Handler = registered[i].handler
    /\ last.op = "method" => last.ret = last.h

\* two calls on the first handle, with a registration and a call on the
\* second handle in between
RestrictionsAccumulateWitness ==
    /\ Len(handlers) = 2
    /\ called[1] = {"GET", "POST"}
    /\ called[2] = {"POST"}
    /\ registered[1].regex # registered[2].regex
    /\ last.op = "method"
    /\ last.h = 1

\* what a step that is a Handle call does to the routes
HandleStep ==
    last'.op = "Handle" =>
        IF ~Compiles(last'.regex)
        THEN last'.panicked /\ handlers' = handlers
        ELSE /\ ~last'.panicked
             /\ handlers' = Append(handlers,
                                   [pattern |-> MustCompile(last'.regex),
                                    allowedMethods |-> NilMap,
                                    Handler |-> last'.handler])
             /\ last'.ret = Len(handlers')

\* C9: a Handle call with a pattern that does not compile panics and leaves
\* the routes as they were; with a pattern that compiles it appends one
\* unrestricted route after the earlier ones, which stay as they were, and
\* returns its handle.
HandlePanicsOrAppends == [][HandleStep]_vars

\* a call that panicked while a restricted route was registered
HandlePanicsWitness ==
    /\ last.op = "Handle"
    /\ last.panicked
    /\ Len(handlers) = 1
    /\ called[1] # {}

(***************************************************************************)
(* Properties of concurrent ServeHTTP calls.                               *)
(***************************************************************************)
Fallback(e) == e.kind = "ServeHTTP" /\ e.route = 0

\* what holds of a call in flight
FlightOK(d) ==
    flight[d].pc # "idle" =>
        LET f == flight[d] IN
        /\ f.req.RequestURI = arrived[d].RequestURI
        /\ f.req.Method = arrived[d].Method
        /\ f.req # arrived[d] =>
              /\ f.pc = "done"
              /\ Len(f.events) = 1
              /\ IsRouteInvocation(f.events[1])
              /\ f.events[1].req = f.req
        /\ \A k \in DOMAIN f.events :
              Fallback(f.events[k]) => f.events[k].req = arrived[d]

\* what a step may change once the router is serving
DispatchStep ==
    /\ serving => handlers' = handlers /\ NotFoundHandler' = NotFoundHandler
    /\ \A d \in Dispatchers :
          flight'[d] # flight[d] =>
             \A e \in Dispatchers \ {d} : flight'[e] = flight[e]

\* C10: once serving, no step changes the routes or NotFoundHandler; a step
\* of one call changes no other call's request; a call changes nothing of
\* its request but the raw query, and that only when it invokes a matched
\* route's handler: after a 405 the request is as it arrived, and a
\* fallback handler receives it as it arrived.
DispatchWritesOwnQueryOnly ==
    /\ [](\A d \in Dispatchers : FlightOK(d))
    /\ [][DispatchStep]_vars

\* both calls are over: one ended with 405, the other invoked a handler
DispatchWritesOwnQueryOnlyWitness ==
    /\ flight["d1"].pc = "done"
    /\ flight["d2"].pc = "done"
    /\ IsMethodNotAllowed(flight["d1"].events[1])
    /\ flight["d1"].req = arrived["d1"]
    /\ IsRouteInvocation(flight["d2"].events[1])
    /\ flight["d2"].req.RawQuery # arrived["d2"].RawQuery
====
